---- MODULE Spec2Model ----
(***************************************************************************)
(* Restaurant pricing service (notebooks/app.py): the Flask handlers       *)
(* get_options, predict and health_check over the data frame df and the    *)
(* joblib artefact model_data that are loaded once at import time.         *)
(*                                                                         *)
(* Encoding of values                                                      *)
(*   text     a sequence of one-character strings, <<"A","b">> is "Ab"     *)
(*   cell     Na (pandas NaN / Python None) or Some(v)                     *)
(*   number   an IEEE double: a rational n/d, an offset in units of the     *)
(*            last place, and the type (builtin float or numpy.float64)    *)
(*   output   a rounded number is an integer count of hundredths           *)
(***************************************************************************)
EXTENDS Integers, Sequences, FiniteSets, TLC

VARIABLES
    columns,     \* df.columns: the column names of the loaded CSV, in file order
    df,          \* the rows of df, each a function from column name to cell
    model_data,  \* the joblib artefact, or Na when the model file was not found
    frame        \* per worker thread: the running handler's position and locals

vars == <<columns, df, model_data, frame>>

----------------------------------------------------------------------------
(* Cells *)

Na == <<>>
Some(v) == <<v>>
IsNa(c) == c = Na
Val(c) == c[1]

Min2(a, b) == IF a <= b THEN a ELSE b

Range(s) == {s[i] : i \in DOMAIN s}

----------------------------------------------------------------------------
(* Text: Python str over a small alphabet *)

Ord(c) ==
    CASE c = " " -> 32
      [] c = "(" -> 40
      [] c = "," -> 44
      [] c = "." -> 46
      [] c = "A" -> 65
      [] c = "B" -> 66
      [] c = "a" -> 97
      [] c = "b" -> 98
      [] c = "c" -> 99

Lower(c) ==
    CASE c = "A" -> "a"
      [] c = "B" -> "b"
      [] OTHER -> c

IsSpace(c) == c = " "

\* a < b for Python str: code point order, a proper prefix first
TextLt(a, b) ==
    \E i \in 1..(Min2(Len(a), Len(b)) + 1) :
        /\ \A j \in 1..(i - 1) : a[j] = b[j]
        /\ \/ i > Len(a) /\ i <= Len(b)
           \/ i <= Len(a) /\ i <= Len(b) /\ Ord(a[i]) < Ord(b[i])

RECURSIVE LStrip(_)
LStrip(s) == IF s # <<>> /\ IsSpace(Head(s)) THEN LStrip(Tail(s)) ELSE s

RECURSIVE RStrip(_)
RStrip(s) ==
    IF s # <<>> /\ IsSpace(s[Len(s)]) THEN RStrip(SubSeq(s, 1, Len(s) - 1)) ELSE s

\* str.strip()
Strip(s) == RStrip(LStrip(s))

\* str.split(','): the pieces between commas, empty pieces kept
RECURSIVE SplitFrom(_, _)
SplitFrom(s, cur) ==
    IF s = <<>> THEN <<cur>>
    ELSE IF Head(s) = "," THEN <<cur>> \o SplitFrom(Tail(s), <<>>)
    ELSE SplitFrom(Tail(s), Append(cur, Head(s)))

SplitComma(s) == SplitFrom(s, <<>>)

\* sorted(...) of a list: insertion into an ascending list, equal items kept
RECURSIVE InsertSorted(_, _)
InsertSorted(x, s) ==
    IF s = <<>> THEN <<x>>
    ELSE IF TextLt(x, Head(s)) THEN <<x>> \o s
    ELSE <<Head(s)>> \o InsertSorted(x, Tail(s))

RECURSIVE Sorted(_)
Sorted(s) == IF s = <<>> THEN <<>> ELSE InsertSorted(Head(s), Sorted(Tail(s)))

\* sorted(list(a_set))
RECURSIVE SortedSet(_)
SortedSet(S) ==
    IF S = {} THEN <<>>
    ELSE LET m == CHOOSE x \in S : \A y \in S : x = y \/ TextLt(x, y)
         IN <<m>> \o SortedSet(S \ {m})

\* Series.unique(): first occurrences, in order of appearance
RECURSIVE UniqueFrom(_, _)
UniqueFrom(s, seen) ==
    IF s = <<>> THEN <<>>
    ELSE IF Head(s) \in seen THEN UniqueFrom(Tail(s), seen)
    ELSE <<Head(s)>> \o UniqueFrom(Tail(s), seen \cup {Head(s)})

Unique(s) == UniqueFrom(s, {})

\* Series.dropna(): the cells that are not missing, unwrapped
RECURSIVE DropNa(_)
DropNa(s) ==
    IF s = <<>> THEN <<>>
    ELSE IF IsNa(Head(s)) THEN DropNa(Tail(s))
    ELSE <<Val(Head(s))>> \o DropNa(Tail(s))

----------------------------------------------------------------------------
(* Numbers *)

\* A number is an IEEE double, held as the rational n/d (d > 0) it was
\* computed from, the count ulps of units in the last place by which the
\* double lies above the double nearest to n/d, and its type: a builtin
\* int or float, or a numpy.float64.
Float(n, d) == [n |-> n, d |-> d, ulps |-> 0, type |-> "float"]
Float64(n, d) == [n |-> n, d |-> d, ulps |-> 0, type |-> "float64"]
PyInt(k) == Float(k, 1)

\* a < b: distinct rationals of this size have distinct doubles in the same order
RatLt(a, b) ==
    \/ a.n * b.d < b.n * a.d
    \/ a.n * b.d = b.n * a.d /\ a.ulps < b.ulps
RatGe(a, b) == ~RatLt(a, b)
\* Python min(a, b): b only when b < a
RatMin(a, b) == IF RatLt(b, a) THEN b ELSE a

\* bool(x) of a float cell: NaN is truthy, only zero is falsy
Truthy(c) == IsNa(c) \/ Val(c).n # 0

Max2(a, b) == IF a >= b THEN a ELSE b

RECURSIVE Pow2(_)
Pow2(k) == IF k = 0 THEN 1 ELSE 2 * Pow2(k - 1)

\* 2^k mod m
RECURSIVE Pow2Mod(_, _)
Pow2Mod(k, m) == IF k = 0 THEN 1 % m ELSE (2 * Pow2Mod(k - 1, m)) % m

\* floor(log2(y)) for an integer y >= 1
RECURSIVE Log2Int(_)
Log2Int(y) == IF y < 2 THEN 0 ELSE 1 + Log2Int(y \div 2)

\* the least k with n * 2^k >= d, for n >= 1
RECURSIVE ShiftsUp(_, _)
ShiftsUp(n, d) == IF n >= d THEN 0 ELSE 1 + ShiftsUp(2 * n, d)

\* the binary exponent e of n/d > 0: 2^e <= n/d < 2^(e+1)
BinaryExponent(n, d) == IF n >= d THEN Log2Int(n \div d) ELSE 0 - ShiftsUp(n, d)

\* the doubles around n/d are the multiples of 2^-q, q = 52 - e (53-bit significand)
GridShift(n, d) == 52 - BinaryExponent(n, d)

\* (n * 2^q) mod m: n/d in units of 2^-q is an integer plus ScaledMod(n, d, d) / d
ScaledMod(n, d, m) == ((n % m) * Pow2Mod(GridShift(n, d), m)) % m

\* the double nearest to n/d is n/d - r / (d * 2^q) for this r
NearestResidue(n, d) ==
    LET R == ScaledMod(n, d, d) IN IF 2 * R > d THEN R - d ELSE R

\* the double of x is x.n/x.d + Excess(x) / (x.d * 2^q), for x > 0
Excess(x) == x.ulps * x.d - NearestResidue(x.n, x.d)

\* price * 1.1 for price = a/b > 0: the product of the double of price and
\* the double 1.1 = 11/10 + 1/(5 * 2^51), rounded to a double (ties to even).
\* In units of the result's last place the exact product is
\*   G + (R + a * 2^(2-e) + 11 * Excess(price) / 2^s) / (10 b)
\* plus a term below 2^-50 with the sign of Excess(price), where G is an
\* integer, R/(10 b) the fraction of 11a/(10b) on that grid, e the exponent
\* of the result and s its distance to the exponent of price.
ProductUlps(p) ==
    LET a == p.n
        b == p.d
        d3 == 10 * b
        e3 == BinaryExponent(11 * a, d3)
        s == e3 - BinaryExponent(a, b)
        RR == ScaledMod(11 * a, d3, 2 * d3)
        R == RR % d3
        F == 2 * Pow2(Max2(e3 - 2, 0))
        Z == F * R + 2 * a * Pow2(Max2(2 - e3, 0)) + 11 * Excess(p) * (F \div Pow2(s))
        D == d3 * F
        fl == (2 * Z + D) \div (2 * D)
        k == IF (2 * Z + D) % (2 * D) # 0 \/ Excess(p) > 0 THEN fl
             ELSE IF Excess(p) < 0 THEN fl - 1
             ELSE IF ((RR \div d3) + fl) % 2 = 0 THEN fl
             ELSE fl - 1
    IN k - (IF 2 * R > d3 THEN 1 ELSE 0)

\* -x
Negated(x) == [x EXCEPT !.n = 0 - x.n, !.ulps = 0 - x.ulps]

\* price * 1.1: a builtin float
TimesOnePointOne(p) ==
    IF p.n = 0 THEN Float(0, 10 * p.d)
    ELSE IF p.n > 0
    THEN [n |-> 11 * p.n, d |-> 10 * p.d, ulps |-> ProductUlps(p), type |-> "float"]
    ELSE [n |-> 11 * p.n, d |-> 10 * p.d, ulps |-> 0 - ProductUlps(Negated(p)),
          type |-> "float"]

\* round-half-even of t/2 for an odd t
HalfEven(t) == IF ((t - 1) \div 2) % 2 = 0 THEN (t - 1) \div 2 ELSE (t + 1) \div 2

\* float.__round__(2) of x = t/200, t odd, midway between two hundredths:
\* the double is rounded correctly, so the hundredth is the upper one when
\* the double lies above t/200, the lower one when it lies below, and the
\* even one when t/200 is a double itself
RoundTie(x, t) ==
    IF Excess(x) > 0 THEN (t + 1) \div 2
    ELSE IF Excess(x) < 0 THEN (t - 1) \div 2
    ELSE HalfEven(t)

\* numpy.float64.__round__(2) of x = t/200, t odd: rint(x * 100) / 100.
\* x * 100 is t/2 + 100 * Excess(x) / (d * 2^q), rounded to a double; the
\* last place of t/2 is w = 2^6 or 2^7 times that of x, so the product is the
\* double t/2 unless the excess is beyond half of it, and rint takes t/2 to
\* the even integer.
RintTie(x, t) ==
    LET w == Pow2(BinaryExponent(100 * x.n, x.d) - BinaryExponent(x.n, x.d))
    IN IF 200 * Excess(x) > x.d * w THEN (t + 1) \div 2
       ELSE IF 200 * Excess(x) * (IF t = 1 THEN 2 ELSE 1) < 0 - x.d * w
       THEN (t - 1) \div 2
       ELSE HalfEven(t)

\* round(x, 2) of an x >= 0, in hundredths
RoundMagnitude(x) ==
    IF (200 * x.n) % x.d = 0 /\ ((200 * x.n) \div x.d) % 2 = 1
    THEN IF x.type = "float64" THEN RintTie(x, (200 * x.n) \div x.d)
         ELSE RoundTie(x, (200 * x.n) \div x.d)
    ELSE (200 * x.n + x.d) \div (2 * x.d)

\* round(x, 2) in hundredths; NaN rounds to NaN
Round2(c) ==
    IF IsNa(c) THEN Na
    ELSE IF Val(c).n >= 0 THEN Some(RoundMagnitude(Val(c)))
    ELSE Some(0 - RoundMagnitude(Negated(Val(c))))

RECURSIVE SumSeq(_)
SumSeq(s) == IF s = <<>> THEN 0 ELSE Head(s) + SumSeq(Tail(s))

----------------------------------------------------------------------------
(* pandas operations on df; a sub-frame is the sequence of its row labels *)

AllLabels(d) == [i \in 1..Len(d) |-> i]

\* df.empty: no rows or no columns
Empty(cols, d) == Len(d) = 0 \/ Len(cols) = 0

\* frame[col] as the sequence of its cells
Series(d, labels, col) == [i \in 1..Len(labels) |-> d[labels[i]][col]]

\* read_csv gives a text column the object dtype unless every cell is
\* missing, and then float64, on which the .str accessor raises
IsStringColumn(d, col) == \E i \in 1..Len(d) : ~IsNa(d[i][col])

\* re.compile(pat): an unclosed group is an error
RegexCompiles(pat) == \A i \in 1..Len(pat) : pat[i] # "("

\* re.search(pat, s, re.IGNORECASE) for a pattern of literals and "."
RegexSearch(pat, s) ==
    \E k \in 0..(Len(s) - Len(pat)) :
        \A j \in 1..Len(pat) : pat[j] = "." \/ Lower(pat[j]) = Lower(s[k + j])

\* frame[col].str.contains(pat, case=False, na=False)
StrContains(d, labels, col, pat) ==
    IF ~IsStringColumn(d, col) \/ ~RegexCompiles(pat)
    THEN [raised |-> TRUE, mask |-> <<>>]
    ELSE [raised |-> FALSE,
          mask |-> [i \in 1..Len(labels) |->
                      /\ ~IsNa(d[labels[i]][col])
                      /\ RegexSearch(pat, Val(d[labels[i]][col]))]]

\* frame[mask]
RECURSIVE Masked(_, _)
Masked(labels, mask) ==
    IF labels = <<>> THEN <<>>
    ELSE IF Head(mask) THEN <<Head(labels)>> \o Masked(Tail(labels), Tail(mask))
    ELSE Masked(Tail(labels), Tail(mask))

Count(v, s) == Cardinality({i \in DOMAIN s : s[i] = v})

\* Series.mode(): the most frequent non-missing values, ascending
Mode(cells) ==
    LET vals == DropNa(cells)
        top == {v \in Range(vals) : \A w \in Range(vals) : Count(v, vals) >= Count(w, vals)}
    IN SortedSet(top)

\* Series.mean(): missing cells skipped, NaN when none is left
\* the prices of a frame are whole numbers, so their sum is exact and the
\* mean is the double nearest to sum / count
Mean(cells) ==
    LET vals == DropNa(cells)
    IN IF vals = <<>> THEN Na ELSE Some(Float64(SumSeq(vals), Len(vals)))

\* Series.isna().all()
AllNa(cells) == \A i \in DOMAIN cells : IsNa(cells[i])

\* Series.idxmax(): the label of the first maximum, missing cells skipped
IdxMax(d, labels, col) ==
    LET i == CHOOSE i \in 1..Len(labels) :
                 /\ ~IsNa(d[labels[i]][col])
                 /\ \A j \in 1..Len(labels) :
                        ~IsNa(d[labels[j]][col]) =>
                            /\ Val(d[labels[j]][col]) <= Val(d[labels[i]][col])
                            /\ j < i => Val(d[labels[j]][col]) < Val(d[labels[i]][col])
    IN labels[i]

----------------------------------------------------------------------------
(* Column resolution *)

\* resolution that walks df.columns and takes the first column that is an alias
RECURSIVE ResolveInFileOrder(_, _)
ResolveInFileOrder(aliases, cols) ==
    IF cols = <<>> THEN Na
    ELSE IF \E i \in 1..Len(aliases) : aliases[i] = Head(cols) THEN Some(Head(cols))
    ELSE ResolveInFileOrder(aliases, Tail(cols))

\* for col in aliases: if col in df.columns: found = col; break
RECURSIVE Resolve(_, _)
Resolve(aliases, cols) ==
    IF aliases = <<>> THEN Na
    ELSE IF Head(aliases) \in Range(cols) THEN Some(Head(aliases))
    ELSE Resolve(Tail(aliases), cols)

\* the alias lists of get_options
location_columns == <<"Location", "location", "LOCATION">>
cuisine_columns == <<"Cuisines", "cuisines", "CUISINES", "Cuisine", "cuisine">>

\* the alias lists written out in predict
PredictLocationAliases == <<"Location", "location", "LOCATION">>
PredictCuisineAliases == <<"Cuisines", "cuisines", "CUISINES", "Cuisine", "cuisine">>
PredictPriceAliases == <<"Price_for_one", "price_for_one", "Price", "price">>
PredictRatingAliases == <<"Rating", "rating", "RATING">>
PredictNameAliases == <<"Name", "name", "NAME", "Restaurant_Name", "restaurant_name">>

----------------------------------------------------------------------------
(* Responses: jsonify(body), status *)

Reply(status, body) == Some([status |-> status, body |-> body])

NotAvailable == <<"Not Available">>
NotFound == <<"Not Found">>

----------------------------------------------------------------------------
(* get_options *)

NonBlank(loc) == Strip(loc) # <<>>

\* sorted([loc for loc in df[location_col].dropna().unique() if str(loc).strip()])
Locations(d, col) ==
    Sorted(SelectSeq(Unique(DropNa(Series(d, AllLabels(d), col))), NonBlank))

\* the inner loop without the strip of each piece
RECURSIVE AddPiecesUnstripped(_, _)
AddPiecesUnstripped(pieces, all_cuisines) ==
    IF pieces = <<>> THEN all_cuisines
    ELSE AddPiecesUnstripped(Tail(pieces),
                             IF Strip(Head(pieces)) # <<>>
                             THEN all_cuisines \cup {Head(pieces)}
                             ELSE all_cuisines)

\* the inner loop: every piece of one entry, stripped, the empty ones dropped
RECURSIVE AddPieces(_, _)
AddPieces(pieces, all_cuisines) ==
    IF pieces = <<>> THEN all_cuisines
    ELSE LET cleaned == Strip(Head(pieces))
         IN AddPieces(Tail(pieces),
                      IF cleaned # <<>> THEN all_cuisines \cup {cleaned}
                      ELSE all_cuisines)

\* the outer loop over df[cuisine_col].dropna()
RECURSIVE AddEntries(_, _)
AddEntries(entries, all_cuisines) ==
    IF entries = <<>> THEN all_cuisines
    ELSE AddEntries(Tail(entries), AddPieces(SplitComma(Head(entries)), all_cuisines))

Cuisines(d, col) ==
    SortedSet(AddEntries(DropNa(Series(d, AllLabels(d), col)), {}))

----------------------------------------------------------------------------
(* The model artefact: a dict with the training frame's dummy columns and  *)
(* the fitted regressor, here the regressor's table over encoded rows.     *)

\* pd.get_dummies(input_df).reindex(columns=train_inputs.columns, fill_value=0):
\* a dummy column is named <column>_<value>
Encode(train_columns, location_col, location, cuisine_col, cuisine) ==
    [i \in 1..Len(train_columns) |->
        IF \/ train_columns[i] = <<location_col, location>>
           \/ train_columns[i] = <<cuisine_col, cuisine>>
        THEN 1 ELSE 0]

\* bool(model_data): None and an empty dict are falsy
ModelTruthy(m) == ~IsNa(m) /\ ~(IsNa(Val(m).train_inputs) /\ IsNa(Val(m).model))

\* model_data['train_inputs'] ... model_data['model'].predict(...)[0]
\* a missing key raises inside the try block
ModelPredict(artefact, location_col, location, cuisine_col, cuisine) ==
    IF IsNa(artefact.train_inputs) THEN [raised |-> TRUE, value |-> Na]
    ELSE [raised |-> FALSE,
          value |-> Some(Val(artefact.model)[Encode(Val(artefact.train_inputs),
                                               location_col, location,
                                               cuisine_col, cuisine)])]

\* the blend without its cap at the prediction
BlendUncapped(price, predicted_price) ==
    IF RatGe(price, predicted_price) THEN predicted_price
    ELSE TimesOnePointOne(price)

\* predicted_price if price >= predicted_price else min(price * 1.1, predicted_price)
Blend(price, predicted_price) ==
    IF RatGe(price, predicted_price) THEN predicted_price
    ELSE RatMin(TimesOnePointOne(price), predicted_price)

\* average_price if average_price else price
Fallback(average_price, price) ==
    IF Truthy(average_price) THEN average_price ELSE Some(price)

----------------------------------------------------------------------------
(* predict, as the positions a worker passes through *)

\* a worker with no handler running
IdleFrame ==
    [op |-> "idle", pc |-> "idle",
     location |-> Na, cuisine |-> Na, price |-> PyInt(0),
     location_col |-> Na, cuisine_col |-> Na, price_col |-> Na,
     rating_col |-> Na, name_col |-> Na,
     df_location |-> <<>>,
     popular_cuisine |-> Na,
     average_price |-> Na,
     most_popular_restaurant_name |-> Na,
     most_popular_cuisine_restaurant_name |-> Na,
     predicted_price |-> Na,
     suggested_price |-> Na,
     invoked |-> 0,
     response |-> Na]

\* return jsonify(body), status; a message is kept without the text it quotes
Done(f, status, body) == [f EXCEPT !.pc = "done", !.response = Reply(status, body)]

\* the generic except clause of predict
Failed(f) == Done(f, 500, [error |-> "Prediction failed"])

\* not x, for a request text: None and "" are falsy
Falsy(c) == IsNa(c) \/ Val(c) = <<>>

\* data.get("price", 0)
PriceOrDefault(price) == IF IsNa(price) THEN PyInt(0) ELSE Val(price)

\* a check that fails only when all three are unavailable
RequiredAllMissing(location_col, cuisine_col, price_col) ==
    IsNa(location_col) /\ IsNa(cuisine_col) /\ IsNa(price_col)

\* not all([location_col, cuisine_col, price_col])
RequiredMissing(location_col, cuisine_col, price_col) ==
    IsNa(location_col) \/ IsNa(cuisine_col) \/ IsNa(price_col)

\* request parsing, the two guards and the column resolution
BeginFrame(cols, d, location, cuisine, price) ==
    LET f == [IdleFrame EXCEPT !.op = "predict", !.location = location,
                               !.cuisine = cuisine, !.price = PriceOrDefault(price)]
        g == [f EXCEPT !.location_col = Resolve(PredictLocationAliases, cols),
                       !.cuisine_col = Resolve(PredictCuisineAliases, cols),
                       !.price_col = Resolve(PredictPriceAliases, cols),
                       !.rating_col = Resolve(PredictRatingAliases, cols),
                       !.name_col = Resolve(PredictNameAliases, cols)]
    IN IF Falsy(location) \/ Falsy(cuisine)
       THEN Done(f, 400, [error |-> "Missing location or cuisine"])
       ELSE IF Empty(cols, d)
       THEN Done(f, 500, [error |-> "No data available for predictions"])
       ELSE IF RequiredMissing(g.location_col, g.cuisine_col, g.price_col)
       THEN Done(g, 500, [error |-> "Required columns not found in dataset"])
       ELSE [g EXCEPT !.pc = "filter"]

\* df_location = df[df[location_col].str.contains(location, case=False, na=False)]
FilterFrame(d, f) ==
    LET r == StrContains(d, AllLabels(d), Val(f.location_col), Val(f.location))
        df_location == Masked(AllLabels(d), r.mask)
    IN IF r.raised THEN Failed(f)
       ELSE IF df_location = <<>>
       THEN Done(f, 404, [error |-> "No data found for location"])
       ELSE [f EXCEPT !.pc = "statistics", !.df_location = df_location]

\* popular_cuisine[0] if not popular_cuisine.empty else "Not Available"
PopularCuisine(d, df_location, cuisine_col) ==
    LET popular_cuisine == Mode(Series(d, df_location, cuisine_col))
    IN IF popular_cuisine # <<>> THEN popular_cuisine[1] ELSE NotAvailable

\* the name of the highest rated row of sub, or the sentinel
HighestRatedName(d, sub, rating_col, name_col, sentinel) ==
    IF /\ sub # <<>>
       /\ ~IsNa(rating_col)
       /\ ~IsNa(name_col)
       /\ ~AllNa(Series(d, sub, Val(rating_col)))
    THEN d[IdxMax(d, sub, Val(rating_col))][Val(name_col)]
    ELSE Some(sentinel)

StatisticsFrame(d, f) ==
    LET cuisine_filter == StrContains(d, f.df_location, Val(f.cuisine_col), Val(f.cuisine))
        g == [f EXCEPT
                !.popular_cuisine =
                    Some(PopularCuisine(d, f.df_location, Val(f.cuisine_col))),
                !.average_price = Mean(Series(d, f.df_location, Val(f.price_col))),
                !.most_popular_restaurant_name =
                    HighestRatedName(d, f.df_location, f.rating_col, f.name_col,
                                     NotAvailable)]
    IN IF cuisine_filter.raised THEN Failed(f)
       ELSE [g EXCEPT
               !.pc = "model",
               !.most_popular_cuisine_restaurant_name =
                   HighestRatedName(d, Masked(f.df_location, cuisine_filter.mask),
                                    f.rating_col, f.name_col, NotFound)]

\* "average_price": round(average_price, 2) if average_price else 0
AveragePriceOut(average_price) ==
    IF Truthy(average_price) THEN Round2(average_price) ELSE Some(0)

\* suggested_price = price; if model_data: try the blend, except the fallback;
\* then the response
ModelFrame(m, f) ==
    LET p == IF ~ModelTruthy(m) THEN [raised |-> FALSE, value |-> Na]
             ELSE ModelPredict(Val(m), Val(f.location_col), Val(f.location),
                               Val(f.cuisine_col), Val(f.cuisine))
        suggested_price ==
            IF ~ModelTruthy(m) THEN Some(f.price)
            ELSE IF p.raised THEN Fallback(f.average_price, f.price)
            ELSE Some(Blend(f.price, Val(p.value)))
        g == [f EXCEPT !.invoked = IF IsNa(p.value) THEN 0 ELSE 1,
                       !.predicted_price = p.value,
                       !.suggested_price = suggested_price]
    IN Done(g, 200,
            [average_price |-> AveragePriceOut(g.average_price),
             popular_cuisine |-> Val(g.popular_cuisine),
             Popular_Restaurant |-> g.most_popular_restaurant_name,
             Popular_Restaurant_serving_cuisine |-> g.most_popular_cuisine_restaurant_name,
             suggested_price |-> Round2(g.suggested_price)])

----------------------------------------------------------------------------
(* get_options and health_check, each one step *)

GetOptionsFrame(cols, d) ==
    LET f == [IdleFrame EXCEPT !.op = "options"]
        g == [f EXCEPT !.location_col = Resolve(location_columns, cols),
                       !.cuisine_col = Resolve(cuisine_columns, cols)]
    IN IF Empty(cols, d) THEN Done(f, 500, [error |-> "No data available"])
       ELSE Done(g, 200,
                [locations |-> IF ~IsNa(g.location_col)
                               THEN Locations(d, Val(g.location_col)) ELSE <<>>,
                 cuisines |-> IF ~IsNa(g.cuisine_col)
                              THEN Cuisines(d, Val(g.cuisine_col)) ELSE <<>>,
                 total_records |-> Len(d)])

HealthFrame(cols, d, m) ==
    Done([IdleFrame EXCEPT !.op = "health"], 200,
        [status |-> "healthy",
         data_loaded |-> ~Empty(cols, d),
         model_loaded |-> ~IsNa(m),
         records |-> IF ~Empty(cols, d) THEN Len(d) ELSE 0])

\* the filter written back to the module-level frame (global df; df = df[...])
DfRebound(d, df_location) == [i \in 1..Len(df_location) |-> d[df_location[i]]]

\* No handler assigns the module-level names: df_location = df[...] binds a
\* local, and the artefact is only read.
DfAfterFilter(d, df_location) == d
ModelAfterPredict(m) == m

----------------------------------------------------------------------------
(* Start-up: joblib.load and pd.read_csv *)

MaxRows == 2
MaxCols == 3
NWorkers == 2

\* what a column of the CSV holds, by its name
Kind(col) ==
    CASE col \in Range(PredictLocationAliases) -> "location"
      [] col \in Range(PredictCuisineAliases) -> "cuisine"
      [] col \in Range(PredictPriceAliases) -> "price"
      [] col \in Range(PredictRatingAliases) -> "rating"
      [] col \in Range(PredictNameAliases) -> "name"
      [] OTHER -> "other"

Restaurant(location, cuisine, price, rating, name) ==
    [location |-> location, cuisine |-> cuisine, price |-> price,
     rating |-> rating, name |-> name, other |-> Some(1)]

\* one row of the frame: a cell for every column of the file
Row(cols, r) == [c \in Range(cols) |-> r[Kind(c)]]

Frame(cols, rs) == [i \in 1..Len(rs) |-> Row(cols, rs[i])]

SeqsUpTo(S, lo, hi) == UNION {[1..k -> S] : k \in lo..hi}

CanonicalColumns == <<"Name", "Location", "Cuisines", "Price_for_one", "Rating">>
NoRatingColumns == <<"Name", "Location", "Cuisines", "Price_for_one">>

\* restaurants of the pricing scenarios
PricingCatalogue ==
    { Restaurant(Some(<<"A","b">>), Some(<<"a",",","b">>), Some(10), Some(5), Some(<<"A">>)),
      Restaurant(Some(<<"A","b">>), Some(<<"b">>), Some(20), Some(5), Some(<<"B">>)),
      Restaurant(Some(<<"b","a">>), Some(<<"a",",","b">>), Some(0), Some(3), Some(<<"a">>)),
      Restaurant(Na, Some(<<"b">>), Some(30), Some(3), Some(<<"b">>)),
      Restaurant(Some(<<"A","b">>), Na, Na, Na, Na) }

\* restaurants of the option-list scenarios: blanks, commas, letter case
OptionsCatalogue ==
    { Restaurant(Some(<<"A","b">>), Some(<<"a",","," ","b">>), Some(10), Some(5), Some(<<"A">>)),
      Restaurant(Some(<<" ","A","b">>), Some(<<"b",",",",","a"," ">>), Some(20), Some(3), Some(<<"B">>)),
      Restaurant(Some(<<" ">>), Some(<<" ",","," ">>), Some(10), Some(3), Some(<<"a">>)),
      Restaurant(Na, Na, Some(10), Na, Some(<<"b">>)),
      Restaurant(Some(<<"B">>), Some(<<"B">>), Some(10), Some(5), Some(<<"a">>)),
      Restaurant(Some(<<"a","b"," ">>), Some(<<"a"," ","b",",","B">>), Some(10), Some(5), Some(<<"b">>)) }

SchemaCatalogue ==
    { Restaurant(Some(<<"A","b">>), Some(<<"a",",","b">>), Some(10), Some(5), Some(<<"A">>)) }

ConcurrentCatalogue ==
    { Restaurant(Some(<<"A","b">>), Some(<<"a",",","b">>), Some(10), Some(5), Some(<<"A">>)),
      Restaurant(Some(<<"b","a">>), Some(<<"b">>), Some(0), Some(3), Some(<<"a">>)) }

\* column names a CSV may carry: every alias, the later aliases of a field
\* first, and a column no handler reads
ColumnPool ==
    <<"LOCATION", "location", "Location",
      "cuisine", "Cuisine", "CUISINES", "cuisines", "Cuisines",
      "price", "Price", "price_for_one", "Price_for_one",
      "RATING", "rating", "Rating",
      "restaurant_name", "Restaurant_Name", "NAME", "name", "Name",
      "Votes">>

\* the sub-sequences of s with at most k names
RECURSIVE SubSeqs(_, _)
SubSeqs(s, k) ==
    IF s = <<>> \/ k = 0 THEN {<<>>}
    ELSE SubSeqs(Tail(s), k) \cup {<<Head(s)>> \o r : r \in SubSeqs(Tail(s), k - 1)}

Schemas == SubSeqs(ColumnPool, MaxCols) \ {<<>>}

\* a fitted artefact: the dummy columns seen in training and the regressor
Forest ==
    [train_inputs |-> Some(<< <<"Location", <<"a","b">> >>, <<"Cuisines", <<"A">> >> >>),
     model |-> Some([v \in [1..2 -> {0, 1}] |->
                   CASE v = <<0, 0>> -> Float64(20, 1)
                     [] v = <<1, 0>> -> Float64(22, 1)
                     [] v = <<0, 1>> -> Float64(25, 1)
                     [] v = <<1, 1>> -> Float64(107, 40)])]

\* an artefact that loads but lacks the 'train_inputs' key
Corrupt == [train_inputs |-> Na, model |-> Forest.model]

\* an artefact that loads as an empty dict
EmptyDict == [train_inputs |-> Na, model |-> Na]

InitWith(schemas, catalogue, artefacts, workers) ==
    /\ model_data \in artefacts
    /\ \E cols \in schemas :
           \/ \E rs \in SeqsUpTo(catalogue, 1, MaxRows) :
                  columns = cols /\ df = Frame(cols, rs)
           \/ columns = cols /\ df = <<>>       \* a CSV with a header line only
           \/ columns = <<>> /\ df = <<>>       \* pd.DataFrame(): no CSV file
    /\ frame = [t \in workers |-> IdleFrame]

Init ==
    InitWith({CanonicalColumns, NoRatingColumns}, PricingCatalogue,
             {Na, Some(Forest), Some(Corrupt), Some(EmptyDict)}, {1})

InitOptions ==
    InitWith({CanonicalColumns}, OptionsCatalogue, {Na, Some(Forest)}, {1})

InitSchema ==
    InitWith(Schemas, SchemaCatalogue, {Some(Forest)}, {1})

InitConcurrent ==
    InitWith({CanonicalColumns}, ConcurrentCatalogue, {Na, Some(Forest)}, 1..NWorkers)

----------------------------------------------------------------------------
(* Requests *)

RequestLocations ==
    {Na, Some(<<"a","b">>), Some(<<"b",".">>), Some(<<"c">>)}
RequestCuisines ==
    {Some(<<>>), Some(<<"A">>), Some(<<".">>), Some(<<"(">>)}
\* absent, 19, 30, two prices midway between hundredths, 0.125 and 2.675,
\* and 0.45, which is midway when raised by a tenth
RequestPrices ==
    {Na, Some(PyInt(19)), Some(PyInt(30)), Some(Float(1, 8)), Some(Float(107, 40)),
     Some(Float(9, 20))}

Requests == RequestLocations \X RequestCuisines \X RequestPrices

ConcurrentRequests ==
    { <<Some(<<"a","b">>), Some(<<"A">>), Some(PyInt(19))>>,
      <<Some(<<"b",".">>), Some(<<".">>), Na>>,
      <<Some(<<"c">>), Some(<<"A">>), Some(PyInt(30))>> }

SchemaRequests ==
    { <<Some(<<"a","b">>), Some(<<"A">>), Some(PyInt(19))>>,
      <<Some(<<"a","b">>), Some(<<"(">>), Some(PyInt(30))>>,
      <<Some(<<"c">>), Some(<<"A">>), Na>>,
      <<Na, Some(<<"A">>), Na>> }

Workers == DOMAIN frame

Ready(t) == frame[t].pc \in {"idle", "done"}

Globals == <<columns, df, model_data>>

----------------------------------------------------------------------------
(* Actions *)

GetOptions(t) ==
    /\ Ready(t)
    /\ frame' = [frame EXCEPT ![t] = GetOptionsFrame(columns, df)]
    /\ UNCHANGED Globals

HealthCheck(t) ==
    /\ Ready(t)
    /\ frame' = [frame EXCEPT ![t] = HealthFrame(columns, df, model_data)]
    /\ UNCHANGED Globals

PredictBegin(t, requests) ==
    /\ Ready(t)
    /\ \E r \in requests :
           frame' = [frame EXCEPT ![t] = BeginFrame(columns, df, r[1], r[2], r[3])]
    /\ UNCHANGED Globals

PredictFilter(t) ==
    /\ frame[t].pc = "filter"
    /\ frame' = [frame EXCEPT ![t] = FilterFrame(df, frame[t])]
    /\ df' = DfAfterFilter(df, frame'[t].df_location)
    /\ UNCHANGED <<columns, model_data>>

PredictStatistics(t) ==
    /\ frame[t].pc = "statistics"
    /\ frame' = [frame EXCEPT ![t] = StatisticsFrame(df, frame[t])]
    /\ UNCHANGED Globals

PredictModel(t) ==
    /\ frame[t].pc = "model"
    /\ frame' = [frame EXCEPT ![t] = ModelFrame(model_data, frame[t])]
    /\ model_data' = ModelAfterPredict(model_data)
    /\ UNCHANGED <<columns, df>>

Next ==
    \/ \E t \in Workers : GetOptions(t)
    \/ \E t \in Workers : HealthCheck(t)
    \/ \E t \in Workers : PredictBegin(t, Requests)
    \/ \E t \in Workers : PredictFilter(t)
    \/ \E t \in Workers : PredictStatistics(t)
    \/ \E t \in Workers : PredictModel(t)

NextConcurrent ==
    \/ \E t \in Workers : GetOptions(t)
    \/ \E t \in Workers : HealthCheck(t)
    \/ \E t \in Workers : PredictBegin(t, ConcurrentRequests)
    \/ \E t \in Workers : PredictFilter(t)
    \/ \E t \in Workers : PredictStatistics(t)
    \/ \E t \in Workers : PredictModel(t)

NextSchema ==
    \/ \E t \in Workers : GetOptions(t)
    \/ \E t \in Workers : HealthCheck(t)
    \/ \E t \in Workers : PredictBegin(t, SchemaRequests)
    \/ \E t \in Workers : PredictFilter(t)
    \/ \E t \in Workers : PredictStatistics(t)
    \/ \E t \in Workers : PredictModel(t)

Spec == Init /\ [][Next]_vars
SpecOptions == InitOptions /\ [][Next]_vars
SpecSchema == InitSchema /\ [][NextSchema]_vars
SpecConcurrent == InitConcurrent /\ [][NextConcurrent]_vars

----------------------------------------------------------------------------
(* What the specification says, stated without the handlers' helpers *)

Finished(t) == frame[t].pc = "done"
Status(t) == Val(frame[t].response).status
Body(t) == Val(frame[t].response).body

\* the text contains the query as a contiguous substring, letter case ignored
ContainsIgnoreCase(text, query) ==
    \E k \in 0..(Len(text) - Len(query)) :
        \A j \in 1..Len(query) : Lower(query[j]) = Lower(text[k + j])

\* the alias table of the specification, in priority order
SpecAliases(field) ==
    CASE field = "location" -> <<"Location", "location", "LOCATION">>
      [] field = "cuisine" -> <<"Cuisines", "cuisines", "CUISINES", "Cuisine", "cuisine">>
      [] field = "price" -> <<"Price_for_one", "price_for_one", "Price", "price">>
      [] field = "rating" -> <<"Rating", "rating", "RATING">>
      [] field = "name" -> <<"Name", "name", "NAME", "Restaurant_Name", "restaurant_name">>

Available(field, cols) == \E i \in 1..Len(SpecAliases(field)) : SpecAliases(field)[i] \in Range(cols)

\* the earliest alias of the field that is a column, or unavailable
FirstPresent(field, cols) ==
    IF ~Available(field, cols) THEN Na
    ELSE LET a == SpecAliases(field)
             i == CHOOSE i \in 1..Len(a) :
                      a[i] \in Range(cols) /\ \A j \in 1..(i - 1) : a[j] \notin Range(cols)
         IN Some(a[i])

Permuted(s, p) == [i \in 1..Len(s) |-> s[p[i]]]

\* a request that passed the guards of predict on a non-empty dataset
ValidRequest(t) ==
    /\ frame[t].op = "predict"
    /\ ~Falsy(frame[t].location)
    /\ ~Falsy(frame[t].cuisine)
    /\ ~Empty(columns, df)

\* the handler got as far as the model step and answered
Answered(t) == ValidRequest(t) /\ Finished(t) /\ ~IsNa(frame[t].popular_cuisine)

\* no prediction was obtained: the model is not loaded, or the call raised
NoPrediction(t) == IsNa(frame[t].predicted_price)

HasPrice(t) ==
    \E i \in 1..Len(frame[t].df_location) :
        ~IsNa(df[frame[t].df_location[i]][Val(frame[t].price_col)])

----------------------------------------------------------------------------
(* C1: whenever the location filter matched and no prediction is obtained  *)
(* (model not loaded, or loaded and raising), predict answers with success *)
(* and suggested_price is average_price when that is computable and        *)
(* nonzero, and the input price otherwise.                                 *)
C1_FallbackToAverage ==
    \A t \in Workers :
        (Answered(t) /\ NoPrediction(t)) =>
            /\ Status(t) = 200
            /\ Body(t).suggested_price =
                   IF HasPrice(t) /\ Val(frame[t].average_price).n # 0
                   THEN Round2(frame[t].average_price)
                   ELSE Round2(Some(frame[t].price))

(* C2: when the prediction succeeds, the unrounded suggested_price is the  *)
(* prediction if price >= prediction and min(price * 1.1, prediction)      *)
(* otherwise, so it never exceeds the prediction, also for the default 0.  *)
C2_BlendRule ==
    \A t \in Workers :
        (Answered(t) /\ ~NoPrediction(t)) =>
            LET p == frame[t].price
                q == Val(frame[t].predicted_price)
                s == Val(frame[t].suggested_price)
            IN /\ p.n * q.d >= q.n * p.d => s = q
               /\ (p.n * q.d < q.n * p.d /\ 11 * p.n * q.d <= 10 * p.d * q.n) =>
                      s.n * 10 * p.d = 11 * p.n * s.d
               /\ (p.n * q.d < q.n * p.d /\ 11 * p.n * q.d > 10 * p.d * q.n) => s = q
               /\ RatGe(q, s)
               /\ Status(t) = 200
               /\ Body(t).suggested_price = Round2(Some(s))

\* the price is below the prediction and raised by a tenth, short of the cap
C2_Witness ==
    \E t \in Workers :
        /\ Answered(t) /\ ~NoPrediction(t)
        /\ frame[t].price = PyInt(19)
        /\ Val(frame[t].predicted_price) = Float64(22, 1)
        /\ Body(t).suggested_price = Some(2090)

(* C3: with location and cuisine given, a non-empty dataset and the        *)
(* required columns, if no row's location contains the request location as *)
(* a case-insensitive substring, predict fails with 404, carries only the  *)
(* error, and never invokes the model.                                     *)
C3_NotFoundBeforeModel ==
    \A t \in Workers :
        ( /\ ValidRequest(t) /\ Finished(t)
          /\ Available("location", columns)
          /\ Available("cuisine", columns)
          /\ Available("price", columns)
          /\ \A i \in 1..Len(df) :
                 LET c == df[i][Val(FirstPresent("location", columns))]
                 IN IsNa(c) \/ ~ContainsIgnoreCase(Val(c), Val(frame[t].location)) )
        => /\ Status(t) = 404
           /\ DOMAIN Body(t) = {"error"}
           /\ frame[t].invoked = 0

(* C4: on a non-empty dataset and a request with location and cuisine, a   *)
(* location, cuisine or price field with no column makes predict fail with *)
(* the schema error (500) before the location filter runs, never with 404; *)
(* with those three present, a missing rating or name column never fails   *)
(* the request and only degrades the restaurant names to the sentinels.    *)
C4_SchemaCheck ==
    \A t \in Workers :
        ValidRequest(t) =>
            /\ ( ~Available("location", columns)
                 \/ ~Available("cuisine", columns)
                 \/ ~Available("price", columns) ) =>
                   /\ Finished(t)
                   /\ Status(t) = 500
                   /\ Body(t) = [error |-> "Required columns not found in dataset"]
                   /\ frame[t].df_location = <<>>
            /\ ( /\ Available("location", columns)
                 /\ Available("cuisine", columns)
                 /\ Available("price", columns)
                 /\ Finished(t) ) =>
                   /\ Body(t) # [error |-> "Required columns not found in dataset"]
                   /\ ( /\ frame[t].df_location # <<>>
                        /\ RegexCompiles(Val(frame[t].cuisine)) ) =>
                          /\ Status(t) = 200
                          /\ (~Available("rating", columns) \/ ~Available("name", columns)) =>
                                 /\ Body(t).Popular_Restaurant = Some(NotAvailable)
                                 /\ Body(t).Popular_Restaurant_serving_cuisine = Some(NotFound)

\* the price column is missing and the requested location matches no row
C4_Witness ==
    \E t \in Workers :
        /\ ValidRequest(t) /\ Finished(t)
        /\ Available("location", columns)
        /\ Available("cuisine", columns)
        /\ ~Available("price", columns)
        /\ frame[t].location = Some(<<"c">>)
        /\ Status(t) = 500

(* C5: every field a handler resolves is the earliest alias of the field's *)
(* list that is a column of the dataset, or unavailable when none is; the  *)
(* result is the same for every order of the dataset's columns, and        *)
(* get_options and predict resolve location and cuisine alike.             *)
C5_ColumnResolution ==
    \A t \in Workers :
        /\ (frame[t].op = "options" /\ Finished(t) /\ Status(t) = 200) =>
               /\ frame[t].location_col = FirstPresent("location", columns)
               /\ frame[t].cuisine_col = FirstPresent("cuisine", columns)
               /\ \A p \in Permutations(1..Len(columns)) :
                      /\ Resolve(location_columns, Permuted(columns, p)) = frame[t].location_col
                      /\ Resolve(cuisine_columns, Permuted(columns, p)) = frame[t].cuisine_col
        /\ ValidRequest(t) =>
               /\ frame[t].location_col = FirstPresent("location", columns)
               /\ frame[t].cuisine_col = FirstPresent("cuisine", columns)
               /\ frame[t].price_col = FirstPresent("price", columns)
               /\ frame[t].rating_col = FirstPresent("rating", columns)
               /\ frame[t].name_col = FirstPresent("name", columns)
               /\ \A p \in Permutations(1..Len(columns)) :
                      /\ Resolve(PredictLocationAliases, Permuted(columns, p)) = frame[t].location_col
                      /\ Resolve(PredictCuisineAliases, Permuted(columns, p)) = frame[t].cuisine_col
                      /\ Resolve(PredictPriceAliases, Permuted(columns, p)) = frame[t].price_col
                      /\ Resolve(PredictRatingAliases, Permuted(columns, p)) = frame[t].rating_col
                      /\ Resolve(PredictNameAliases, Permuted(columns, p)) = frame[t].name_col

\* two aliases of one field are columns, the lower-priority one first in the file
C5_Witness ==
    \E t \in Workers :
        /\ ValidRequest(t)
        /\ Len(columns) >= 2
        /\ columns[1] = "cuisine" /\ columns[2] = "CUISINES"
        /\ frame[t].cuisine_col = Some("CUISINES")

\* the text without its leading and trailing blanks
Trim(s) ==
    IF \A i \in 1..Len(s) : s[i] = " " THEN <<>>
    ELSE LET a == CHOOSE a \in 1..Len(s) : s[a] # " " /\ \A j \in 1..(a - 1) : s[j] = " "
             b == CHOOSE b \in 1..Len(s) : s[b] # " " /\ \A j \in (b + 1)..Len(s) : s[j] = " "
         IN SubSeq(s, a, b)

\* the trimmed, non-empty pieces of an entry between its commas
Tokens(entry) ==
    { Trim(SubSeq(entry, a, b)) :
        <<a, b>> \in { ab \in (1..(Len(entry) + 1)) \X (0..Len(entry)) :
                         /\ ab[1] <= ab[2] + 1
                         /\ ab[1] = 1 \/ entry[ab[1] - 1] = ","
                         /\ ab[2] = Len(entry) \/ entry[ab[2] + 1] = ","
                         /\ \A j \in ab[1]..ab[2] : entry[j] # "," } } \ {<<>>}

\* ascending, no duplicates, and exactly the members of S
IsSortedListOf(list, S) ==
    /\ Range(list) = S
    /\ \A i \in 1..(Len(list) - 1) : TextLt(list[i], list[i + 1])

PresentValues(d, col) == {Val(d[i][col]) : i \in {j \in 1..Len(d) : ~IsNa(d[j][col])}}

OptionsAnswered(t) == frame[t].op = "options" /\ Finished(t) /\ Status(t) = 200

(* C6: the locations of get_options are the sorted, duplicate-free set of  *)
(* the trimmed non-empty location texts: no surrounding blanks, one entry  *)
(* for texts that differ only by surrounding blanks, ascending order.      *)
C6_LocationsTrimmed ==
    \A t \in Workers :
        (OptionsAnswered(t) /\ Available("location", columns)) =>
            IsSortedListOf(Body(t).locations,
                {Trim(v) : v \in PresentValues(df, Val(FirstPresent("location", columns)))}
                    \ {<<>>})

(* C7: the cuisines of get_options are the sorted set of the trimmed,      *)
(* non-empty comma-separated tokens of the non-missing cuisine fields; the *)
(* list is the same for every order of the rows and with any row repeated, *)
(* and total_records is the row count of the whole dataset.                *)
C7_CuisineTokens ==
    \A t \in Workers :
        (OptionsAnswered(t) /\ Available("cuisine", columns)) =>
            LET col == Val(FirstPresent("cuisine", columns))
            IN /\ IsSortedListOf(Body(t).cuisines,
                      UNION {Tokens(v) : v \in PresentValues(df, col)})
               /\ Body(t).total_records = Len(df)
               /\ \A p \in Permutations(1..Len(df)) :
                      Cuisines(Permuted(df, p), col) = Body(t).cuisines
               /\ \A i \in 1..Len(df) :
                      /\ Cuisines(Append(df, df[i]), col) = Body(t).cuisines
                      /\ Cuisines(<<df[i]>> \o df, col) = Body(t).cuisines
               /\ Cuisines(df \o df, col) = Body(t).cuisines

\* two rows whose fields share a token, written with blanks and an empty piece
C7_Witness ==
    \E t \in Workers :
        /\ OptionsAnswered(t)
        /\ Len(df) = 2
        /\ df[1]["Cuisines"] = Some(<<"b", ",", ",", "a", " ">>)
        /\ df[2]["Cuisines"] = Some(<<"a", ",", " ", "b">>)
        /\ Body(t).cuisines = << <<"a">>, <<"b">> >>
        /\ Body(t).total_records = 2

\* the rows of the location-filtered subset whose cuisine contains the query
CuisineMatches(t) ==
    { i \in 1..Len(frame[t].df_location) :
        LET c == df[frame[t].df_location[i]][Val(frame[t].cuisine_col)]
        IN ~IsNa(c) /\ ContainsIgnoreCase(Val(c), Val(frame[t].cuisine)) }

RatingAt(t, i) == df[frame[t].df_location[i]][Val(frame[t].rating_col)]

(* C8: popular_restaurant_for_cuisine of a successful predict is "Not      *)
(* Found" when no row of the location-filtered subset has a cuisine that   *)
(* contains the request cuisine as a case-insensitive substring, or rating *)
(* or name has no column, or every matching rating is missing; otherwise   *)
(* it is the name of the first matching row with the maximum rating.       *)
C8_PopularForCuisine ==
    \A t \in Workers :
        (Answered(t) /\ Status(t) = 200) =>
            LET M == CuisineMatches(t)
                rated == IF IsNa(frame[t].rating_col) THEN {}
                         ELSE {i \in M : ~IsNa(RatingAt(t, i))}
            IN IF rated = {} \/ IsNa(frame[t].name_col)
               THEN Body(t).Popular_Restaurant_serving_cuisine = Some(NotFound)
               ELSE LET best == CHOOSE i \in rated :
                                    \A j \in rated :
                                        /\ Val(RatingAt(t, j)) <= Val(RatingAt(t, i))
                                        /\ j < i => Val(RatingAt(t, j)) < Val(RatingAt(t, i))
                    IN Body(t).Popular_Restaurant_serving_cuisine =
                           df[frame[t].df_location[best]][Val(frame[t].name_col)]

\* a whole request run on its own from the loaded dataset and model
RunAlone(cols, d, m, location, cuisine, price) ==
    LET b == BeginFrame(cols, d, location, cuisine, price)
        f == IF b.pc = "filter" THEN FilterFrame(d, b) ELSE b
        s == IF f.pc = "statistics" THEN StatisticsFrame(d, f) ELSE f
    IN IF s.pc = "model" THEN ModelFrame(m, s) ELSE s

AloneResponse(t) ==
    CASE frame[t].op = "options" -> GetOptionsFrame(columns, df).response
      [] frame[t].op = "health" -> HealthFrame(columns, df, model_data).response
      [] frame[t].op = "predict" ->
            RunAlone(columns, df, model_data, frame[t].location, frame[t].cuisine,
                     Some(frame[t].price)).response

(* C9: no request, successful or failed, changes the dataset or the model, *)
(* and under every interleaving of the workers each finished request       *)
(* carries the response it would get when run alone.                       *)
C9_ReadOnlyGlobals ==
    /\ [][columns' = columns /\ df' = df /\ model_data' = model_data]_vars
    /\ [](\A t \in Workers : Finished(t) => frame[t].response = AloneResponse(t))

\* one worker has answered a predict while another is between two steps of its own
C9_Witness ==
    \E t, u \in Workers :
        /\ t # u
        /\ frame[t].op = "predict" /\ Finished(t) /\ Status(t) = 200
        /\ frame[u].pc = "statistics"
        /\ frame[u].location # frame[t].location

(* C10: average_price of a successful predict is the mean of the           *)
(* non-missing prices of the location-filtered subset rounded to 2         *)
(* decimals, and the number 0 (not NaN) when there is none; in that case a *)
(* fallback suggested_price is the input price.                            *)
C10_AveragePrice ==
    \A t \in Workers :
        (Answered(t) /\ Status(t) = 200) =>
            LET prices == {i \in 1..Len(frame[t].df_location) :
                             ~IsNa(df[frame[t].df_location[i]][Val(frame[t].price_col)])}
            IN IF prices = {}
               THEN /\ Body(t).average_price = Some(0)
                    /\ NoPrediction(t) => Body(t).suggested_price = Round2(Some(frame[t].price))
               ELSE Body(t).average_price = Round2(frame[t].average_price)

====
